---- MODULE Spec2Model ----
(***************************************************************************)
(* A model of kick-vod-downloader: the processed-state store, the         *)
(* per-channel worker and the main thread of auto_runner.py; of            *)
(* libs/vod_downloader.py the streaming mode (stream_vod_from_m3u8) with   *)
(* the order of its segment files, the bulk mode (download_vod_from_m3u8), *)
(* the HTTP transport (_http_get) and the variant selection                *)
(* (_pick_variant_from_master); and the --live-channel program of          *)
(* kick_vod_downloader.py.                                                 *)
(*                                                                         *)
(* Encoding of values.  A video id (a JSON string) is a positive integer;  *)
(* 0 inside a stored list is an entry that is not a string.  The value     *)
(* stored under a channel key is a record [kind, items]: a JSON list, a    *)
(* bare JSON string, an absent key / null ("none") or any other JSON value *)
(* ("other").  A file is a record [kind, data]: "missing", "partial"       *)
(* (bytes that do not parse as JSON), "nondict" (valid JSON that is not an *)
(* object) or "dict" (an object, data maps every channel to its value).    *)
(***************************************************************************)
EXTENDS Integers, Sequences, FiniteSets, TLC

\* auto_runner.py:30
STATE_RETENTION == 200

\* how many times the process may be killed and started again
MaxRestarts == 1

Channels == {"a", "b"}

\* the oldest id of a full history, and an id no history holds at the start
NewVod == STATE_RETENTION + 1

RawNone == [kind |-> "none", items |-> <<>>]
RawOther == [kind |-> "other", items |-> <<>>]
RawList(s) == [kind |-> "list", items |-> s]
RawStr(id) == [kind |-> "str", items |-> <<id>>]

EmptyDict == [c \in Channels |-> RawNone]
MissingFile == [kind |-> "missing", data |-> EmptyDict]
PartialFile == [kind |-> "partial", data |-> EmptyDict]
NonDictFile == [kind |-> "nondict", data |-> EmptyDict]
DictFile(d) == [kind |-> "dict", data |-> d]

\* a history that fills the retention window: ids 1..STATE_RETENTION
FullHistory == [i \in 1..STATE_RETENTION |-> i]
OldVod == FullHistory[1]
NonStr == OldVod - 1

Range(s) == {s[i] : i \in DOMAIN s}

(***************************************************************************)
(* auto_runner.py: the store's pure functions                              *)
(***************************************************************************)

\* _load_state: the parsed object, {} when the file cannot be opened or
\* parsed; a JSON value that is no object is returned as it is.
_load_state(f) ==
    IF f.kind \in {"missing", "partial"} THEN DictFile(EmptyDict) ELSE f

IsStr(item) == item > 0

\* the loop of lines 62-70: an item is appended when it is a string and no
\* earlier item equals it (the `seen` set holds exactly the earlier strings)
Appended(values, i) ==
    /\ IsStr(values[i])
    /\ \A j \in 1..(i - 1) : values[j] # values[i]

DedupLoop(values) ==
    LET kept == SelectSeq([i \in 1..Len(values) |-> i],
                          LAMBDA i : Appended(values, i))
    IN [k \in 1..Len(kept) |-> values[kept[k]]]

\* a slice that keeps the head of the list
LastMut(s, n) == IF Len(s) <= n THEN s ELSE SubSeq(s, 1, n)

\* ordered[-STATE_RETENTION:]
Last(s, n) == IF Len(s) <= n THEN s ELSE SubSeq(s, Len(s) - n + 1, Len(s))

_normalize_history(history) ==
    LET values == IF history.kind \in {"list", "str"} THEN history.items
                  ELSE <<>>
    IN Last(DedupLoop(values), STATE_RETENTION)

\* _list_channel_vods: the ids of the listed links, first occurrence kept
_list_channel_vods(links) == DedupLoop(links)

\* _derive_variant_from_master_url: None only for an empty master url; every
\* other master yields a url (rewritten for a known path, else the master)
_derive_variant_from_master_url(master) ==
    IF master = "none" THEN "none"
    ELSE IF master = "ivs_master" THEN "ivs_variant" ELSE master

\* build_suggested_basename: channel, the video's creation time when the
\* metadata was fetched (one per video), else the current time (NonStr)
build_suggested_basename(channel, u, metaOk) ==
    <<channel, IF metaOk THEN u ELSE NonStr>>

(***************************************************************************)
(* State                                                                   *)
(***************************************************************************)
VARIABLES
    channels,   \* the configured channel list, one worker thread per entry
    fs,         \* fs["path"]: _state.json, fs["tmp"]: _state.json.tmp
    lock,       \* STATE_LOCK: 0 when free, else the worker holding it
    mp3,        \* the <basename>.mp3 files in DOWNLOAD_DIR
    proc,       \* "running" or "crashed"
    restarts,   \* how many times the process was started again
    env,        \* what the remote service and the machine can answer
    wk,         \* the locals of each _worker call
    gh,         \* history variables of each worker, used by the properties
    disk,       \* the segments directory of a streaming run: name -> file
    st,         \* the locals of stream_vod_from_m3u8
    sh,         \* history variables of the streaming run
    pk,         \* one call of _pick_variant_from_master
    ht,         \* the HTTP transport of a VodDownloader and its _http_get
    hh,         \* history variables of the transport
    bk,         \* one call of download_vod_from_m3u8 and its files
    bh,         \* history variables of that call
    lv,         \* the --live-channel program of kick_vod_downloader.py
    sk,         \* one ordering of the segment files for the assembly
    lc,         \* one call of is_channel_live
    nh          \* one call of _get_channel_history

storeVars == <<channels, env, fs, lock, mp3, proc, restarts, wk, gh>>
streamVars == <<disk, st, sh>>
restVars == <<pk, ht, hh, bk, bh, lv, sk, lc, nh>>
vars == <<storeVars, streamVars, restVars>>

\* what no action of auto_runner.py changes
static == <<channels, env, streamVars, restVars>>

Workers == DOMAIN channels

\* the answers of the remote service and of the machine: the links a
\* listing returns (newest first), whether the metadata of a video is
\* fetched, the master url the video API gives, whether a bulk download
\* returns a path and where a failed one failed (in the segment loop or in
\* ffmpeg), whether the WebDriver starts, whether <state_path>.tmp can be
\* opened for writing
AnyAnswer ==
    [links |-> {<<>>, <<NewVod>>, <<NewVod, OldVod>>, <<NewVod, NewVod, OldVod>>},
     meta |-> BOOLEAN,
     master |-> {"none", "ivs_master", "other_master"},
     download |-> BOOLEAN,
     cause |-> {"segments", "transcoder"},
     setup |-> BOOLEAN,
     write |-> BOOLEAN]

\* a service that lists the same two videos at every poll, on a machine
\* whose disk can be written
SteadyAnswer ==
    [links |-> {<<NewVod, OldVod>>},
     meta |-> {TRUE},
     master |-> {"ivs_master"},
     download |-> BOOLEAN,
     cause |-> {"segments"},
     setup |-> BOOLEAN,
     write |-> {TRUE}]

WorkerInit ==
    [pc |-> "init", history |-> <<>>, processed |-> {}, vod_items |-> <<>>,
     idx |-> 0, uuid |-> NonStr, basename |-> <<>>, downloaded_any |-> FALSE,
     state |-> MissingFile, normalized |-> <<>>, site |-> "none",
     sleep |-> "none", driver |-> "none", steps |-> "running"]

\* start: the ids of the history loaded when the run began; archived: the
\* ids whose download returned a path or whose output file was found, in
\* this run; pending: the pending_list of the current cycle; attempted:
\* the ids the current cycle has reached; abandoned: the ids given up and
\* not reached again since; wrote: a write of this run has completed;
\* saving / before: inside _save_state, and the state file as it was on
\* entry; transcoder: the ids whose last download ended with a failure of
\* ffmpeg.
GhostInit ==
    [start |-> {}, archived |-> {}, pending |-> {}, attempted |-> {},
     abandoned |-> {}, wrote |-> FALSE, saving |-> FALSE,
     before |-> MissingFile, transcoder |-> {}]

Chan(w) == channels[w]

JunkDict ==
    DictFile([a |-> RawList(<<OldVod, NonStr, OldVod>>), b |-> RawStr(OldVod)])
FullDict ==
    DictFile([a |-> RawList(FullHistory), b |-> RawList(<<NewVod>>)])
OtherDict == DictFile([a |-> RawNone, b |-> RawOther])

\* the configurations and the files the process is started with: one worker
Scenarios ==
    { [channels |-> <<"a">>, path |-> MissingFile, mp3 |-> {}, env |-> AnyAnswer],
      [channels |-> <<"a">>, path |-> JunkDict, mp3 |-> {<<"a", OldVod>>},
       env |-> AnyAnswer],
      [channels |-> <<"a">>, path |-> FullDict, mp3 |-> {<<"a", OldVod>>},
       env |-> AnyAnswer],
      [channels |-> <<"b">>, path |-> NonDictFile, mp3 |-> {}, env |-> AnyAnswer] }

\* two workers, on two channels and on the same channel (CHANNELS="a,a")
ConcScenarios ==
    { [channels |-> <<"a", "b">>, path |-> MissingFile, mp3 |-> {},
       env |-> SteadyAnswer],
      [channels |-> <<"a", "b">>, path |-> JunkDict, mp3 |-> {},
       env |-> SteadyAnswer],
      [channels |-> <<"a", "a">>, path |-> OtherDict, mp3 |-> {},
       env |-> SteadyAnswer] }

\* a segment name k stands for the file "k.ts"
SegNames == {0, 1}

StreamInit ==
    [pc |-> "init", downloaded_files |-> {}, segs |-> <<>>, ended |-> FALSE,
     new_segs |-> <<>>, idx |-> 0, current_playlist_count |-> 0,
     last_playlist_segment_count |-> -1, end_reached |-> FALSE,
     concat |-> "none", result |-> "none"]

\* counts: the segment counts of the successful polls, in order; start: the
\* names found in the directory when the run began; got: the names whose
\* download succeeded in this run; refetched: the names fetched although
\* they were in start or got; unlisted: the names fetched that the poll's
\* playlist does not list; interrupted: the loop was left by an interrupt;
\* raised: the loop was left by an unexpected exception; failed: the names
\* whose last download failed; converts: the calls of
\* convert_all_segments_to_mp3; convfail: the concatenation or ffmpeg
\* failed; ffmpeg: how the run of ffmpeg ended, "none" without a run;
\* poll: how the GET of the current pass went: "failed" (an exception or a
\* status other than 200), "invalid" (200 with a body that is no playlist)
\* or "valid", and "none" before the GET
StreamGhostInit ==
    [counts |-> <<>>, start |-> {}, got |-> {}, refetched |-> {},
     unlisted |-> {}, interrupted |-> FALSE, raised |-> FALSE,
     failed |-> {}, converts |-> 0, convfail |-> FALSE, ffmpeg |-> "none",
     poll |-> "none"]

\* no VodDownloader has been made
HttpIdle ==
    [pc |-> "idle", cloudscraper |-> FALSE, client |-> "none", uses |-> FALSE,
     url |-> "none", headers |-> "none", allow_retry |-> FALSE, calls |-> 0]

\* requests: the requests of the current _http_get call, in order, each
\* with its url, headers, client and outcome; created: the outcomes of the
\* attempts of this call to create the challenge-solving client; uses0:
\* _http_uses_cloudscraper when the call began; result: what the call
\* surfaced, and of which request; upgraded: an upgrade has happened
HttpGhostInit ==
    [requests |-> <<>>, created |-> <<>>, uses0 |-> FALSE,
     result |-> [kind |-> "none", of |-> 0], upgraded |-> FALSE]

\* no call of download_vod_from_m3u8 is under way; concat is the file
\* <basename>.ts of the work directory, mp3 the file <basename>.mp3
BulkIdle ==
    [pc |-> "idle", segment_urls |-> 0, idx |-> 0, failed_segments |-> 0,
     concat |-> "none", mp3 |-> "none", result |-> "none"]

\* fetched: the segment requests made; ffmpeg: the runs of ffmpeg;
\* outcome: how the run of ffmpeg ended
BulkGhostInit == [fetched |-> 0, ffmpeg |-> 0, outcome |-> "none"]

\* no call of _pick_variant_from_master is under way
PickIdle ==
    [pc |-> "idle", resp |-> [kind |-> "error", variants |-> <<>>],
     preferred_variant |-> <<>>, result |-> <<>>]

\* the components outside of auto_runner.py and of the streaming run are
\* not in use
NoBulk == bk = BulkIdle /\ bh = BulkGhostInit

\* the --live-channel program is not in use; code is the exit status, live
\* that is_channel_live has answered true, resolved that a variant playlist
\* was resolved
LiveIdle ==
    [pc |-> "idle", driver |-> "none", steps |-> "running", code |-> "none",
     live |-> FALSE, resolved |-> FALSE]

\* no segment directory is being ordered
SortIdle == [pc |-> "idle", files |-> {}, sorted |-> <<>>]

\* is_channel_live is not called
LiveCheckIdle ==
    [pc |-> "idle", channel |-> "a", exec |-> "script", answer |-> "reject",
     raised |-> FALSE, result |-> FALSE]

\* _get_channel_history is not called
NormIdle ==
    [pc |-> "idle", channel |-> "a", file |-> MissingFile, raised |-> FALSE,
     result |-> <<>>]

NoChecks == lc = LiveCheckIdle /\ nh = NormIdle

NoLive == lv = LiveIdle
NoRest ==
    /\ pk = PickIdle /\ ht = HttpIdle /\ hh = HttpGhostInit /\ NoBulk /\ NoLive
    /\ sk = SortIdle
    /\ NoChecks

\* stream_vod_from_m3u8 is not called
StreamIdle == [StreamInit EXCEPT !.pc = "idle"]

NoStream ==
    /\ disk = [n \in SegNames |-> "none"]
    /\ st = StreamIdle
    /\ sh = StreamGhostInit

Start(sc) ==
    /\ channels = sc.channels
    /\ env = sc.env
    /\ fs = [path |-> sc.path, tmp |-> MissingFile]
    /\ mp3 = sc.mp3
    /\ lock = 0
    /\ proc = "running"
    /\ restarts = 0
    /\ wk = [w \in DOMAIN sc.channels |-> WorkerInit]
    /\ gh = [w \in DOMAIN sc.channels |-> GhostInit]

\* one worker and a service that lists the same two videos at every poll
FairScenarios ==
    { [channels |-> <<"a">>, path |-> MissingFile, mp3 |-> {},
       env |-> SteadyAnswer],
      [channels |-> <<"a">>, path |-> JunkDict, mp3 |-> {},
       env |-> SteadyAnswer] }

Init == NoStream /\ NoRest /\ \E sc \in Scenarios : Start(sc)
InitFair == NoStream /\ NoRest /\ \E sc \in FairScenarios : Start(sc)
InitConc == NoStream /\ NoRest /\ \E sc \in ConcScenarios : Start(sc)

(***************************************************************************)
(* auto_runner.py: _worker                                                 *)
(***************************************************************************)

\* an exception leaves _worker through its finally clause
Raise(w) ==
    [wk[w] EXCEPT !.pc = "dead", !.driver = "closed", !.steps = "stopped"]

\* a lock that is never waited for
LockFreeMut(w) == TRUE

\* with STATE_LOCK: the lock can be taken
LockFree(w) == lock = 0

\* lines 117-120: WebDriverManager.setup() returns a driver or None
WorkerSetup(w) ==
    /\ proc = "running" /\ wk[w].pc = "init"
    /\ \E ok \in env.setup :
        wk' = [wk EXCEPT ![w].pc = IF ok THEN "get_history" ELSE "dead",
                         ![w].driver = IF ok THEN "open" ELSE "none"]
    /\ UNCHANGED <<static, fs, lock, mp3, proc, restarts, gh>>

\* lines 128-129 and _get_channel_history (74-78)
GetChannelHistory(w) ==
    /\ proc = "running" /\ wk[w].pc = "get_history"
    /\ LockFree(w)
    /\ LET state == _load_state(fs["path"]) IN
        IF state.kind = "nondict"
        THEN /\ wk' = [wk EXCEPT ![w] = Raise(w)]
             /\ gh' = gh
        ELSE LET h == _normalize_history(state.data[Chan(w)]) IN
             /\ wk' = [wk EXCEPT ![w].pc = "poll", ![w].history = h,
                                 ![w].processed = Range(h)]
             /\ gh' = [gh EXCEPT ![w].start = Range(h)]
    /\ UNCHANGED <<static, fs, lock, mp3, proc, restarts>>

\* lines 155-164: list the videos, compute pending_list
Poll(w) ==
    /\ proc = "running" /\ wk[w].pc = "poll"
    /\ \E links \in env.links :
        LET items == _list_channel_vods(links)
            pending == {u \in Range(items) : u \notin wk[w].processed}
        IN IF items = <<>> \/ pending = {}
           THEN /\ wk' = [wk EXCEPT ![w].pc = "sleep", ![w].sleep = "live",
                                    ![w].vod_items = items]
                /\ gh' = [gh EXCEPT ![w].pending = {}, ![w].attempted = {}]
           ELSE /\ wk' = [wk EXCEPT ![w].pc = "item", ![w].vod_items = items,
                                    ![w].idx = 1, ![w].downloaded_any = FALSE]
                /\ gh' = [gh EXCEPT ![w].pending = pending, ![w].attempted = {}]
    /\ UNCHANGED <<static, fs, lock, mp3, proc, restarts>>

\* lines 160, 220-223: time.sleep, then the next cycle
Sleep(w) ==
    /\ proc = "running" /\ wk[w].pc = "sleep"
    /\ wk' = [wk EXCEPT ![w].pc = "poll", ![w].sleep = "none",
                        ![w].vod_items = <<>>, ![w].idx = 0]
    /\ UNCHANGED <<static, fs, lock, mp3, proc, restarts, gh>>

\* lines 166-185: the next item of vod_items, up to the os.path.exists test
\* a test of the output file that is not made: every video is resolved
AfterBasenameMut(exists) == "resolve"

\* lines 180-185: `if os.path.exists(mp3_target)` goes to record_processed
\* and `continue`; otherwise the resolution follows
AfterBasename(exists) == IF exists THEN "record" ELSE "resolve"

Item(w) ==
    /\ proc = "running" /\ wk[w].pc = "item"
    /\ LET me == wk[w] IN
       IF me.idx > Len(me.vod_items)
       THEN /\ wk' = [wk EXCEPT ![w].pc = "sleep",
                        ![w].sleep = IF me.downloaded_any THEN "poll" ELSE "live"]
            /\ gh' = gh
       ELSE LET u == me.vod_items[me.idx] IN
            IF u \in me.processed
            THEN /\ wk' = [wk EXCEPT ![w].idx = me.idx + 1]
                 /\ gh' = gh
            ELSE \E metaOk \in env.meta :
                 LET b == build_suggested_basename(Chan(w), u, metaOk) IN
                 /\ wk' = [wk EXCEPT ![w].uuid = u, ![w].basename = b,
                             ![w].pc = AfterBasename(b \in mp3),
                             ![w].site = IF b \in mp3 THEN "exists" ELSE "none"]
                 /\ gh' = [gh EXCEPT ![w].attempted = @ \cup {u},
                             ![w].abandoned = @ \ {u},
                             ![w].archived = IF b \in mp3 THEN @ \cup {u} ELSE @]
    /\ UNCHANGED <<static, fs, lock, mp3, proc, restarts>>

\* `break` in place of `continue`: the for loop is left
AbandonMut(w) ==
    [wk[w] EXCEPT !.pc = "item", !.idx = Len(wk[w].vod_items) + 1,
                  !.site = "none", !.uuid = NonStr, !.basename = <<>>]

\* `continue` without recording: the video is abandoned for this cycle
Abandon(w) ==
    [wk[w] EXCEPT !.pc = "item", !.idx = wk[w].idx + 1, !.site = "none",
                  !.uuid = NonStr, !.basename = <<>>]

\* lines 187-202: master playlist and variant
Resolve(w) ==
    /\ proc = "running" /\ wk[w].pc = "resolve"
    /\ \E master \in env.master :
        IF master = "none" \/ _derive_variant_from_master_url(master) = "none"
        THEN /\ wk' = [wk EXCEPT ![w] = Abandon(w)]
             /\ gh' = [gh EXCEPT ![w].abandoned = @ \cup {wk[w].uuid}]
        ELSE /\ wk' = [wk EXCEPT ![w].pc = "download"]
             /\ gh' = gh
    /\ UNCHANGED <<static, fs, lock, mp3, proc, restarts>>

\* a download whose failure is not tested: the video is recorded anyway
DownloadMut(w) ==
    /\ proc = "running" /\ wk[w].pc = "download"
    /\ \E ok \in env.download :
        /\ mp3' = IF ok THEN mp3 \cup {wk[w].basename} ELSE mp3
        /\ wk' = [wk EXCEPT ![w].pc = "record", ![w].site = "downloaded"]
        /\ gh' = [gh EXCEPT ![w].archived = IF ok THEN @ \cup {wk[w].uuid} ELSE @,
                            ![w].transcoder = @ \ {wk[w].uuid}]
    /\ UNCHANGED <<static, fs, lock, proc, restarts>>

\* lines 204-214: download_vod_from_m3u8 returns the mp3 path or None (the
\* segment loop gave up, or ffmpeg failed: vod_downloader.py 280-292)
Download(w) ==
    /\ proc = "running" /\ wk[w].pc = "download"
    /\ \E ok \in env.download :
        IF ok
        THEN /\ mp3' = mp3 \cup {wk[w].basename}
             /\ wk' = [wk EXCEPT ![w].pc = "record", ![w].site = "downloaded"]
             /\ gh' = [gh EXCEPT ![w].archived = @ \cup {wk[w].uuid},
                                 ![w].transcoder = @ \ {wk[w].uuid}]
        ELSE \E cause \in env.cause :
             /\ mp3' = mp3
             /\ wk' = [wk EXCEPT ![w] = Abandon(w)]
             /\ gh' = [gh EXCEPT ![w].abandoned = @ \cup {wk[w].uuid},
                                 ![w].transcoder =
                                     IF cause = "transcoder"
                                     THEN @ \cup {wk[w].uuid}
                                     ELSE @ \ {wk[w].uuid}]
    /\ UNCHANGED <<static, fs, lock, proc, restarts>>

\* record_processed, lines 143-148, and line 82 of _set_channel_history
RecordProcessed(w) ==
    /\ proc = "running" /\ wk[w].pc = "record"
    /\ IF wk[w].uuid \in wk[w].processed
       THEN wk' = [wk EXCEPT ![w].pc = "recorded"]
       ELSE LET h == Append(wk[w].history, wk[w].uuid) IN
            wk' = [wk EXCEPT ![w].history = h,
                             ![w].normalized = _normalize_history(RawList(h)),
                             ![w].pc = "set_lock"]
    /\ UNCHANGED <<static, fs, lock, mp3, proc, restarts, gh>>

\* line 83: with STATE_LOCK
SetAcquire(w) ==
    /\ proc = "running" /\ wk[w].pc = "set_lock"
    /\ LockFree(w)
    /\ lock' = w
    /\ wk' = [wk EXCEPT ![w].pc = "set_load"]
    /\ UNCHANGED <<static, fs, mp3, proc, restarts, gh>>

\* a fresh object holding the one channel
SetChannelFresh(state, channel, normalized) ==
    DictFile([EmptyDict EXCEPT ![channel] = RawList(normalized)])

\* line 85: state[channel] = normalized, on the object just loaded
SetChannel(state, channel, normalized) ==
    DictFile([state.data EXCEPT ![channel] = RawList(normalized)])

\* lines 84-85; a loaded value that is no object raises TypeError, which
\* releases the lock and ends the worker
SetLoad(w) ==
    /\ proc = "running" /\ wk[w].pc = "set_load"
    /\ LET state == _load_state(fs["path"]) IN
        IF state.kind = "nondict"
        THEN /\ wk' = [wk EXCEPT ![w] = Raise(w)]
             /\ lock' = 0
        ELSE /\ wk' = [wk EXCEPT ![w].pc = "save_open",
                         ![w].state = SetChannel(state, Chan(w), wk[w].normalized)]
             /\ lock' = lock
    /\ UNCHANGED <<static, fs, mp3, proc, restarts, gh>>

\* writing the state file in place
SaveTargetMut == "path"

\* line 49: the file _save_state writes to
SaveTarget == "tmp"

\* line 50: open(tmp, "w") creates or truncates the file, or raises
\* OSError, which releases the lock and ends the worker
SaveOpen(w) ==
    /\ proc = "running" /\ wk[w].pc = "save_open"
    /\ \E ok \in env.write :
         IF ok
         THEN /\ fs' = [fs EXCEPT ![SaveTarget] = PartialFile]
              /\ wk' = [wk EXCEPT ![w].pc = "save_dump"]
              /\ gh' = [gh EXCEPT ![w].saving = TRUE, ![w].before = fs["path"]]
              /\ lock' = lock
         ELSE /\ fs' = fs
              /\ wk' = [wk EXCEPT ![w] = Raise(w)]
              /\ gh' = gh
              /\ lock' = 0
    /\ UNCHANGED <<static, mp3, proc, restarts>>

\* line 51: json.dump and the close of the file
SaveDump(w) ==
    /\ proc = "running" /\ wk[w].pc = "save_dump"
    /\ fs' = [fs EXCEPT ![SaveTarget] = wk[w].state]
    /\ wk' = [wk EXCEPT ![w].pc = "save_replace"]
    /\ UNCHANGED <<static, lock, mp3, proc, restarts, gh>>

\* line 52: os.replace(tmp, path); FileNotFoundError when tmp does not exist
SaveReplace(w) ==
    /\ proc = "running" /\ wk[w].pc = "save_replace"
    /\ IF fs["tmp"].kind = "missing"
       THEN /\ wk' = [wk EXCEPT ![w] = Raise(w)]
            /\ lock' = 0
            /\ fs' = fs
       ELSE /\ wk' = [wk EXCEPT ![w].pc = "set_unlock"]
            /\ lock' = lock
            /\ fs' = [path |-> fs["tmp"], tmp |-> MissingFile]
    /\ gh' = [gh EXCEPT ![w].saving = FALSE]
    /\ UNCHANGED <<static, mp3, proc, restarts>>

\* lines 86-87 and 148-149: leave the lock, keep the normalized list
SetRelease(w) ==
    /\ proc = "running" /\ wk[w].pc = "set_unlock"
    /\ lock' = 0
    /\ wk' = [wk EXCEPT ![w].pc = "recorded",
                        ![w].history = wk[w].normalized,
                        ![w].processed = Range(wk[w].normalized)]
    /\ gh' = [gh EXCEPT ![w].wrote = TRUE]
    /\ UNCHANGED <<static, fs, mp3, proc, restarts>>

\* the return of record_processed: lines 185 (continue) and 218
Recorded(w) ==
    /\ proc = "running" /\ wk[w].pc = "recorded"
    /\ wk' = [wk EXCEPT ![w].pc = "item", ![w].idx = wk[w].idx + 1,
                ![w].site = "none", ![w].uuid = NonStr, ![w].basename = <<>>,
                ![w].state = MissingFile, ![w].normalized = <<>>,
                ![w].downloaded_any =
                    IF wk[w].site = "downloaded" THEN TRUE ELSE @]
    /\ UNCHANGED <<static, fs, lock, mp3, proc, restarts, gh>>

(***************************************************************************)
(* The process                                                             *)
(***************************************************************************)

\* the process is killed: every thread stops where it is
Crash ==
    /\ proc = "running"
    /\ proc' = "crashed"
    /\ UNCHANGED <<static, fs, lock, mp3, restarts, wk, gh>>

\* the program is started again on the files the last process left
Restart ==
    /\ proc = "crashed" /\ restarts < MaxRestarts
    /\ proc' = "running"
    /\ restarts' = restarts + 1
    /\ lock' = 0
    /\ wk' = [w \in Workers |-> WorkerInit]
    /\ gh' = [w \in Workers |-> GhostInit]
    /\ UNCHANGED <<static, fs, mp3>>

\* a main thread that does not wait for its workers
AnyAliveMut == FALSE

\* line 273: any(t.is_alive() for t in threads)
AnyAlive == \E w \in Workers : wk[w].pc # "dead"

\* lines 272-274: the loop of the main thread ends when no worker thread is
\* alive, and with it the program
MainExit ==
    /\ proc = "running" /\ ~AnyAlive
    /\ proc' = "exited"
    /\ UNCHANGED <<static, fs, lock, mp3, restarts, wk, gh>>

\* lines 275-276: KeyboardInterrupt is raised in the main thread, which
\* prints and ends; the workers are daemon threads (line 268) and stop where
\* they are when the interpreter exits, their finally blocks not run
OperatorInterrupt ==
    /\ proc = "running"
    /\ proc' = "interrupted"
    /\ UNCHANGED <<static, fs, lock, mp3, restarts, wk, gh>>

Next ==
    \/ \E w \in Workers : WorkerSetup(w)
    \/ \E w \in Workers : GetChannelHistory(w)
    \/ \E w \in Workers : Poll(w)
    \/ \E w \in Workers : Sleep(w)
    \/ \E w \in Workers : Item(w)
    \/ \E w \in Workers : Resolve(w)
    \/ \E w \in Workers : Download(w)
    \/ \E w \in Workers : RecordProcessed(w)
    \/ \E w \in Workers : SetAcquire(w)
    \/ \E w \in Workers : SetLoad(w)
    \/ \E w \in Workers : SaveOpen(w)
    \/ \E w \in Workers : SaveDump(w)
    \/ \E w \in Workers : SaveReplace(w)
    \/ \E w \in Workers : SetRelease(w)
    \/ \E w \in Workers : Recorded(w)
    \/ MainExit
    \/ OperatorInterrupt
    \/ Crash
    \/ Restart

Spec == Init /\ [][Next]_vars
SpecConc == InitConc /\ [][Next]_vars

\* a worker thread keeps running for as long as the process lives
WorkerStep ==
    \E w \in Workers :
        \/ WorkerSetup(w) \/ GetChannelHistory(w) \/ Poll(w) \/ Sleep(w)
        \/ Item(w) \/ Resolve(w) \/ Download(w) \/ RecordProcessed(w)
        \/ SetAcquire(w) \/ SetLoad(w) \/ SaveOpen(w) \/ SaveDump(w)
        \/ SaveReplace(w) \/ SetRelease(w) \/ Recorded(w)

\* the threads keep running: the workers, and the loop of the main thread
SpecFair ==
    InitFair /\ [][Next]_vars /\ WF_vars(WorkerStep) /\ WF_vars(MainExit)

(***************************************************************************)
(* vod_downloader.py: stream_vod_from_m3u8                                 *)
(***************************************************************************)

\* the longest playlist a poll answers with
MaxPlaylistLen == 3

\* the local filenames a playlist lists, in order; two lines of a playlist
\* may have the same local filename
Playlists == UNION {[1..n -> SegNames] : n \in 0..MaxPlaylistLen}

\* the playlist texts the server answers with: with the #EXTM3U header,
\* any list of segments, with or without #EXT-X-ENDLIST, or without header
Texts ==
    [valid : {TRUE}, segs : Playlists, endlist : BOOLEAN]
        \cup {[valid |-> FALSE, segs |-> <<>>, endlist |-> FALSE]}

\* the segments of the text and whether it has #EXT-X-ENDLIST
parse_playlist(text) ==
    IF text.valid THEN <<text.segs, text.endlist>> ELSE <<<<>>, FALSE>>

\* the .ts files of the segments directory
listdir(d) == {n \in SegNames : d[n] # "none"}

\* the listed segments whose name is not in downloaded_files, as a list
NewSegs(segs, downloaded_files) ==
    SelectSeq(segs, LAMBDA n : n \notin downloaded_files)

\* a test that lets an equal count pass
EndTestMut(current, last) == last # -1 /\ current < last

\* a test that trusts #EXT-X-ENDLIST
EndTestMarker(current, last) == st.ended \/ (last # -1 /\ current <= last)

\* the stream is taken as ended: a previous count exists and the current
\* one is not larger
EndTest(current, last) == last # -1 /\ current <= last

\* the run of streaming mode, on the segments directories a run can find:
\* empty, one whole segment, a whole and a truncated segment
StreamDisks ==
    { [n \in SegNames |-> "none"],
      [n \in SegNames |-> IF n = 0 THEN "full" ELSE "none"],
      [n \in SegNames |-> IF n = 0 THEN "full" ELSE "partial"] }

\* streaming mode runs no worker thread
NoWorkers == [channels |-> <<>>, path |-> MissingFile, mp3 |-> {},
              env |-> SteadyAnswer]

InitStream ==
    /\ Start(NoWorkers)
    /\ NoRest
    /\ disk \in StreamDisks
    /\ st = StreamInit
    /\ sh = StreamGhostInit

\* the directory is listed once, when the run starts
StreamStart ==
    /\ st.pc = "init"
    /\ st' = [st EXCEPT !.pc = "fetch", !.downloaded_files = listdir(disk)]
    /\ sh' = [sh EXCEPT !.start = listdir(disk)]
    /\ UNCHANGED <<storeVars, restVars, disk>>

\* a failed GET that is taken for a poll without segments
FetchFailedMut(s) ==
    [s EXCEPT !.pc = "sleep", !.last_playlist_segment_count = 0]

\* lines 443-454: the GET raised or its status is not 200: sleep, then
\* `continue`
FetchFailed(s) == [s EXCEPT !.pc = "sleep"]

\* one GET of the playlist: an exception or a status other than 200 waits
\* and polls again; a 200 is parsed and its new segments are selected
FetchPlaylist ==
    /\ st.pc = "fetch"
    /\ \/ /\ st' = FetchFailed(st)
          /\ sh' = [sh EXCEPT !.poll = "failed"]
       \/ \E text \in Texts :
            LET parsed == parse_playlist(text) IN
            /\ st' = [st EXCEPT !.pc = "download",
                                !.segs = parsed[1],
                                !.ended = parsed[2],
                                !.current_playlist_count = Len(parsed[1]),
                                !.new_segs =
                                    NewSegs(parsed[1], st.downloaded_files),
                                !.idx = 1]
            /\ sh' = [sh EXCEPT !.counts = Append(@, Len(parsed[1])),
                                !.poll = IF text.valid THEN "valid"
                                         ELSE "invalid"]
    /\ UNCHANGED <<storeVars, restVars, disk>>

\* the ghost record after a GET of the segment `name`
Fetched(name, ok) ==
    [sh EXCEPT !.got = IF ok THEN @ \cup {name} ELSE @,
               !.failed = IF ok THEN @ \ {name} ELSE @ \cup {name},
               !.refetched = IF name \in sh.start \cup sh.got
                             THEN @ \cup {name} ELSE @,
               !.unlisted = IF name \in Range(st.segs)
                            THEN @ ELSE @ \cup {name}]

\* download_segment for the next entry of new_segs: the whole file is
\* written, or the status is not 200, or the GET raises, or the write
\* raises after the file was opened
DownloadSegment ==
    /\ st.pc = "download" /\ st.idx <= Len(st.new_segs)
    /\ LET name == st.new_segs[st.idx] IN
       \E out \in {"ok", "status", "error", "partial"} :
          /\ disk' = IF out = "ok" THEN [disk EXCEPT ![name] = "full"]
                     ELSE IF out = "partial"
                          THEN [disk EXCEPT ![name] = "partial"]
                          ELSE disk
          /\ st' = [st EXCEPT !.idx = @ + 1,
                              !.downloaded_files =
                                  IF out = "ok" THEN @ \cup {name} ELSE @]
          /\ sh' = Fetched(name, out = "ok")
    /\ UNCHANGED <<storeVars, restVars>>

\* a loop whose end returns without the conversion
WithoutConvert == "done"

\* after the loop is left the call goes on to convert_all_segments_to_mp3
AfterLoop == "convert"

\* the segment lists and the count of one pass of the loop are not read
\* in the next one
EndOfPass(s) ==
    [s EXCEPT !.segs = <<>>, !.new_segs = <<>>, !.idx = 0,
              !.current_playlist_count = 0]

\* after the batch: the end test, else the count is remembered
CheckEnd ==
    /\ st.pc = "download" /\ st.idx > Len(st.new_segs)
    /\ IF EndTest(st.current_playlist_count, st.last_playlist_segment_count)
       THEN st' = [EndOfPass(st) EXCEPT !.pc = AfterLoop,
                                        !.end_reached = TRUE]
       ELSE st' = [EndOfPass(st) EXCEPT !.pc = "sleep",
                                        !.last_playlist_segment_count =
                                            st.current_playlist_count]
    /\ UNCHANGED <<storeVars, restVars, disk, sh>>

\* time.sleep(poll_seconds)
StreamSleep ==
    /\ st.pc = "sleep"
    /\ st' = [st EXCEPT !.pc = "fetch"]
    /\ sh' = [sh EXCEPT !.poll = "none"]
    /\ UNCHANGED <<storeVars, restVars, disk>>

\* KeyboardInterrupt anywhere in the loop, between two steps or while a
\* segment is being written
Interrupt ==
    /\ st.pc \in {"fetch", "download", "sleep"}
    /\ st' = [EndOfPass(st) EXCEPT !.pc = AfterLoop]
    /\ \/ /\ disk' = disk
          /\ sh' = [sh EXCEPT !.interrupted = TRUE]
       \/ /\ st.pc = "download" /\ st.idx <= Len(st.new_segs)
          /\ LET name == st.new_segs[st.idx] IN
             /\ disk' = [disk EXCEPT ![name] = "partial"]
             /\ sh' = [Fetched(name, FALSE) EXCEPT !.interrupted = TRUE]
    /\ UNCHANGED <<storeVars, restVars>>

\* an exception in the loop that no inner handler catches (download_segment
\* catches its own)
Unexpected ==
    /\ st.pc \in {"fetch", "download", "sleep"}
    /\ st' = [EndOfPass(st) EXCEPT !.pc = "convert"]
    /\ sh' = [sh EXCEPT !.raised = TRUE]
    /\ UNCHANGED <<storeVars, restVars, disk>>

\* how convert_all_segments_to_mp3 goes once segment files were found:
\* <basename>.ts cannot be opened, or writing it fails, or it is written
\* and ffmpeg then writes the mp3, exits non-zero, is not found
\* (FileNotFoundError), or cannot be started for another reason (another
\* OSError, which no handler of the call catches)
ConvertOutcomes ==
    {"concat_open", "concat_write", "ok", "nonzero", "missing", "oserror"}

\* the outcomes in which ffmpeg was run or tried
Transcoded == {"ok", "nonzero", "missing", "oserror"}

\* convert_all_segments_to_mp3 (374-434): None without segment files, or
\* when the concatenation or ffmpeg fails; the concatenated file is left
\* as it was written
Convert ==
    /\ st.pc = "convert"
    /\ IF listdir(disk) = {}
       THEN /\ st' = [st EXCEPT !.pc = "done", !.result = "none"]
            /\ sh' = [sh EXCEPT !.converts = @ + 1]
       ELSE \E out \in ConvertOutcomes :
            /\ st' = [st EXCEPT
                        !.pc = "done",
                        !.concat = IF out = "concat_open" THEN @
                                   ELSE IF out = "concat_write" THEN "partial"
                                   ELSE "full",
                        !.result = IF out = "ok" THEN "mp3"
                                   ELSE IF out = "oserror" THEN "raise"
                                   ELSE "none"]
            /\ sh' = [sh EXCEPT !.converts = @ + 1,
                                !.convfail = out # "ok",
                                !.ffmpeg = IF out \in Transcoded THEN out
                                           ELSE "none"]
    /\ UNCHANGED <<storeVars, restVars, disk>>

\* KeyboardInterrupt while convert_all_segments_to_mp3 runs: the call is
\* outside of the try block of the loop (line 499), the exception goes to
\* the caller
ConvertInterrupted ==
    /\ st.pc = "convert"
    /\ \E c \in {st.concat, "partial", "full"} :
         /\ st' = [st EXCEPT !.pc = "done", !.concat = c,
                             !.result = "interrupt"]
         /\ sh' = [sh EXCEPT !.converts = @ + 1, !.convfail = TRUE,
                             !.ffmpeg = IF c = "full" THEN "interrupted"
                                        ELSE "none"]
    /\ UNCHANGED <<storeVars, restVars, disk>>

NextStream ==
    \/ StreamStart
    \/ FetchPlaylist
    \/ DownloadSegment
    \/ CheckEnd
    \/ StreamSleep
    \/ Interrupt
    \/ Unexpected
    \/ Convert
    \/ ConvertInterrupted

SpecStream == InitStream /\ [][NextStream]_vars

\* a GET of the playlist that answers 200
FetchSucceeds == FetchPlaylist /\ st'.pc = "download"

\* the call without an operator: no KeyboardInterrupt is delivered
NextUnattended ==
    \/ StreamStart
    \/ FetchPlaylist
    \/ DownloadSegment
    \/ CheckEnd
    \/ StreamSleep
    \/ Unexpected
    \/ Convert

\* the thread of the call keeps running, and the GET of the playlist, tried
\* again and again, answers 200 again and again
SpecUnattended ==
    /\ InitStream /\ [][NextUnattended]_vars
    /\ WF_vars(NextUnattended)
    /\ SF_vars(FetchSucceeds)

\* the first run of streaming mode for a basename: no segments directory
InitResume ==
    /\ Start(NoWorkers)
    /\ NoRest
    /\ disk = [n \in SegNames |-> "none"]
    /\ st = StreamInit
    /\ sh = StreamGhostInit

\* the program is run again for the same basename, after the earlier run
\* has returned or was killed where it was: the files stay (lines 315-327)
StreamRerun ==
    /\ st.pc # "init" /\ restarts < MaxRestarts
    /\ restarts' = restarts + 1
    /\ st' = StreamInit
    /\ sh' = StreamGhostInit
    /\ UNCHANGED <<channels, env, fs, lock, mp3, proc, wk, gh, restVars, disk>>

NextResume ==
    \/ StreamStart
    \/ FetchPlaylist
    \/ DownloadSegment
    \/ CheckEnd
    \/ StreamSleep
    \/ Interrupt
    \/ Unexpected
    \/ Convert
    \/ ConvertInterrupted
    \/ StreamRerun

SpecResume == InitResume /\ [][NextResume]_vars

\* the thread that runs the call keeps running
SpecStreamFair == SpecStream /\ WF_vars(NextStream)

(***************************************************************************)
(* kick_vod_downloader.py: the --live-channel program (lines 59-144)       *)
(***************************************************************************)

offLive == <<storeVars, disk, sh, pk, ht, hh, bk, bh, sk, lc, nh>>

\* the program is started; stream_vod_from_m3u8 is not yet called
InitLive ==
    /\ Start(NoWorkers)
    /\ NoChecks
    /\ pk = PickIdle /\ ht = HttpIdle /\ hh = HttpGhostInit /\ NoBulk
    /\ disk \in StreamDisks
    /\ st = StreamIdle
    /\ sh = StreamGhostInit
    /\ lv = [LiveIdle EXCEPT !.pc = "setup"]
    /\ sk = SortIdle

\* a handler of lines 132-144: the step logger is stopped, the driver is
\* closed when there is one, and the program exits with the status
LiveExit(l, code) ==
    [l EXCEPT !.pc = "exited", !.steps = "stopped", !.code = code,
              !.driver = IF @ = "open" THEN "closed" ELSE @]

\* lines 72-75: the WebDriver is set up; without one RuntimeError is raised
LiveSetup ==
    /\ lv.pc = "setup"
    /\ \E ok \in BOOLEAN :
         lv' = IF ok THEN [lv EXCEPT !.pc = "wait_live", !.driver = "open"]
               ELSE LiveExit(lv, "1")
    /\ UNCHANGED <<offLive, st>>

\* a liveness loop that is left after the first answer
AfterLiveCheckMut(live) == "resolve"

\* lines 89-94: `if live: break`, else sleep 60 s and ask again
AfterLiveCheck(live) == IF live THEN "resolve" ELSE "wait_live"

\* lines 84-94: one pass of the liveness loop; not live, or an exception of
\* is_channel_live, sleeps 60 s and asks again
LiveWait ==
    /\ lv.pc = "wait_live"
    /\ \E live \in BOOLEAN :
         lv' = [lv EXCEPT !.pc = AfterLiveCheck(live), !.live = @ \/ live]
    /\ UNCHANGED <<offLive, st>>

\* lines 97-106: one pass of the loop that resolves the playlist of the
\* latest video; None sleeps 60 s and asks again
LiveResolve ==
    /\ lv.pc = "resolve"
    /\ \E resolved \in BOOLEAN :
         lv' = [lv EXCEPT !.pc = IF resolved THEN "basename" ELSE "resolve",
                          !.resolved = @ \/ resolved]
    /\ UNCHANGED <<offLive, st>>

\* lines 108-122: the basename, then the call of stream_vod_from_m3u8
LiveStream ==
    /\ lv.pc = "basename"
    /\ lv' = [lv EXCEPT !.pc = "stream"]
    /\ st' = [st EXCEPT !.pc = "init"]
    /\ UNCHANGED offLive

\* lines 123-144: the call has ended: with a path the driver is closed and
\* the status is 0; None raises RuntimeError and an exception of the call
\* is caught, status 1; KeyboardInterrupt from the call gives status 130
LiveReturn ==
    /\ lv.pc = "stream" /\ st.pc = "done"
    /\ lv' = LiveExit(lv, IF st.result = "mp3" THEN "0"
                          ELSE IF st.result = "interrupt" THEN "130"
                          ELSE "1")
    /\ UNCHANGED <<offLive, st>>

\* the places of the program at which KeyboardInterrupt reaches the
\* handler of line 132; inside stream_vod_from_m3u8 the loop catches it
\* itself, and what escapes the conversion comes with the return
MainInterruptible == {"setup", "wait_live", "resolve", "basename"}

\* lines 132-137: KeyboardInterrupt in the main program
LiveInterrupt ==
    /\ lv.pc \in MainInterruptible
    /\ lv' = LiveExit(lv, "130")
    /\ UNCHANGED <<offLive, st>>

NextLive ==
    \/ LiveSetup
    \/ LiveWait
    \/ LiveResolve
    \/ LiveStream
    \/ LiveReturn
    \/ LiveInterrupt
    \/ StreamStart
    \/ FetchPlaylist
    \/ DownloadSegment
    \/ CheckEnd
    \/ StreamSleep
    \/ Interrupt
    \/ Unexpected
    \/ Convert
    \/ ConvertInterrupted

SpecLive == InitLive /\ [][NextLive]_vars

(***************************************************************************)
(* vod_downloader.py: _pick_variant_from_master                            *)
(*                                                                         *)
(* A URI is a sequence of characters, the preference too (the empty        *)
(* sequence is the empty string or None).  A variant is a record           *)
(* [bandwidth, uri]: the BANDWIDTH of its #EXT-X-STREAM-INF line, or       *)
(* NoBandwidth without one, and its URI made absolute.                     *)
(***************************************************************************)

\* the most variants of a master playlist
MaxVariants == 3

NoBandwidth == -1

Bandwidths == {NoBandwidth, 0, 1}
Uris == {<<"a">>, <<"b">>, <<"a", "b">>}
Preferences == {<<>>, <<"a">>, <<"a", "b">>, <<"c">>}

\* the url of the master playlist
MasterUrl == <<"m">>

Variants == [bandwidth : Bandwidths, uri : Uris]

\* what the GET of the playlist gives: an exception, a status other than
\* 200, a text without #EXT-X-STREAM-INF, or a master playlist with the
\* variants parsed from it (none when its only #EXT-X-STREAM-INF line is
\* followed by no URI)
Responses ==
    {[kind |-> k, variants |-> <<>>] : k \in {"error", "status", "media"}}
        \cup [kind : {"master"},
              variants : UNION {[1..n -> Variants] : n \in 0..MaxVariants}]

\* preferred_variant in uri
Contains(sub, str) ==
    \E i \in 0..(Len(str) - Len(sub)) : SubSeq(str, i + 1, i + Len(sub)) = sub

\* t[0] or 0
SortKey(t) == IF t.bandwidth = NoBandwidth THEN 0 ELSE t.bandwidth

\* an insertion that puts a variant before those with an equal key
InsertDescMut(sorted, t) ==
    LET pos == Cardinality({i \in DOMAIN sorted :
                               SortKey(sorted[i]) > SortKey(t)})
    IN  SubSeq(sorted, 1, pos) \o <<t>> \o SubSeq(sorted, pos + 1, Len(sorted))

\* t put into a list sorted by descending key, after the entries whose key
\* is not smaller: the sort is stable
InsertDesc(sorted, t) ==
    LET pos == Cardinality({i \in DOMAIN sorted :
                               SortKey(sorted[i]) >= SortKey(t)})
    IN  SubSeq(sorted, 1, pos) \o <<t>> \o SubSeq(sorted, pos + 1, Len(sorted))

RECURSIVE SortDesc(_)
\* variants.sort(key=lambda t: (t[0] or 0), reverse=True)
SortDesc(variants) ==
    IF variants = <<>> THEN <<>>
    ELSE InsertDesc(SortDesc(SubSeq(variants, 1, Len(variants) - 1)),
                    variants[Len(variants)])

_pick_variant_from_master(playlist_url, resp, preferred_variant) ==
    IF resp.kind # "master" \/ resp.variants = <<>> THEN playlist_url
    ELSE LET matching == SelectSeq(resp.variants,
                            LAMBDA t : Contains(preferred_variant, t.uri))
         IN  IF preferred_variant # <<>> /\ matching # <<>>
             THEN matching[1].uri
             ELSE SortDesc(resp.variants)[1].uri

offPick == <<storeVars, streamVars, ht, hh, bk, bh, lv, sk, lc, nh>>

InitPick ==
    /\ Start(NoWorkers)
    /\ NoChecks
    /\ NoStream
    /\ sk = SortIdle
    /\ ht = HttpIdle /\ hh = HttpGhostInit /\ NoBulk /\ NoLive
    /\ pk \in [pc : {"call"}, resp : Responses,
               preferred_variant : Preferences, result : {<<>>}]

PickVariant ==
    /\ pk.pc = "call"
    /\ pk' = [pk EXCEPT !.pc = "done",
                        !.result = _pick_variant_from_master(
                                      MasterUrl, pk.resp, pk.preferred_variant)]
    /\ UNCHANGED offPick

NextPick == PickVariant

SpecPick == InitPick /\ [][NextPick]_vars

(***************************************************************************)
(* vod_downloader.py: the HTTP transport (__init__, _create_http_client,   *)
(* _http_get)                                                              *)
(***************************************************************************)

\* the most _http_get calls of one VodDownloader
MaxCalls == 2

Urls == {"u1", "u2"}

\* the headers argument: None, an empty dict, a dict with entries
HeaderArgs == {"none", "empty", "given"}

\* a request raises, or answers with status 403 or with another status
Outcomes == {"raise", "403", "200"}

\* the client and the flag _create_http_client returns: the scraper when
\* the cloudscraper module was imported and create_scraper returns, else a
\* requests.Session
_create_http_client(cloudscraper, created) ==
    IF cloudscraper /\ created
    THEN [client |-> "scraper", uses |-> TRUE]
    ELSE [client |-> "session", uses |-> FALSE]

\* dict(headers) if headers else self._build_headers()
FinalHeaders(headers) ==
    IF headers \in {"none", "empty"} THEN "built" ELSE headers

\* a retry that does not look at the active client
UpgradesMut(allow_retry, cloudscraper, uses) == allow_retry /\ cloudscraper

\* allow_retry and cloudscraper and not self._http_uses_cloudscraper
Upgrades(allow_retry, cloudscraper, uses) ==
    allow_retry /\ cloudscraper /\ ~uses

\* a retry that may be retried
RetryFlagMut(allow_retry) == allow_retry

\* the allow_retry of the call made for the retry
RetryFlag(allow_retry) == FALSE

offHttp == <<storeVars, streamVars, pk, bk, bh, lv, sk, lc, nh>>

InitHttp ==
    /\ Start(NoWorkers)
    /\ NoChecks
    /\ NoStream
    /\ sk = SortIdle
    /\ pk = PickIdle /\ NoBulk /\ NoLive
    /\ ht \in [pc : {"new"}, cloudscraper : BOOLEAN, client : {"none"},
               uses : {FALSE}, url : {"none"}, headers : {"none"},
               allow_retry : {FALSE}, calls : {0}]
    /\ hh = HttpGhostInit

\* VodDownloader.__init__
Construct ==
    /\ ht.pc = "new"
    /\ \E created \in BOOLEAN :
         LET c == _create_http_client(ht.cloudscraper, created) IN
         ht' = [ht EXCEPT !.pc = "ready", !.client = c.client, !.uses = c.uses]
    /\ UNCHANGED <<offHttp, hh>>

\* _http_get(url, headers) is called
HttpGet ==
    /\ ht.pc = "ready" /\ ht.calls < MaxCalls
    /\ \E url \in Urls, headers \in HeaderArgs :
         ht' = [ht EXCEPT !.pc = "request", !.url = url,
                          !.headers = FinalHeaders(headers),
                          !.allow_retry = TRUE, !.calls = @ + 1]
    /\ hh' = [hh EXCEPT !.requests = <<>>, !.created = <<>>,
                        !.uses0 = ht.uses,
                        !.result = [kind |-> "none", of |-> 0]]
    /\ UNCHANGED offHttp

\* client.get(url, headers=final_headers) and what follows it: the upgrade
\* and the call for the retry, or the return or raise
HttpRequest ==
    /\ ht.pc = "request"
    /\ \E outcome \in Outcomes :
         LET requests == Append(hh.requests,
                                [url |-> ht.url, headers |-> ht.headers,
                                 client |-> ht.client, outcome |-> outcome])
         IN
         IF outcome \in {"raise", "403"}
            /\ Upgrades(ht.allow_retry, ht.cloudscraper, ht.uses)
         THEN \E created \in BOOLEAN :
                LET c == _create_http_client(ht.cloudscraper, created) IN
                /\ ht' = [ht EXCEPT !.client = c.client, !.uses = c.uses,
                                    !.headers = FinalHeaders(ht.headers),
                                    !.allow_retry = RetryFlag(ht.allow_retry)]
                /\ hh' = [hh EXCEPT !.requests = requests,
                                    !.created = Append(@, created),
                                    !.upgraded = @ \/ c.uses]
         ELSE /\ ht' = [ht EXCEPT !.pc = "ready", !.url = "none",
                                  !.headers = "none", !.allow_retry = FALSE]
              /\ hh' = [hh EXCEPT !.requests = requests,
                                  !.result =
                                      [kind |-> IF outcome = "raise"
                                                THEN "raise" ELSE "response",
                                       of |-> Len(requests)]]
    /\ UNCHANGED offHttp

NextHttp ==
    \/ Construct
    \/ HttpGet
    \/ HttpRequest

SpecHttp == InitHttp /\ [][NextHttp]_vars

(***************************************************************************)
(* vod_downloader.py: download_vod_from_m3u8 (bulk mode)                   *)
(***************************************************************************)

SEGMENT_MAX_FAILURES == 10

\* the most segments of a playlist
MaxSegments == 11

offBulk == <<storeVars, streamVars, pk, ht, hh, lv, sk, lc, nh>>

InitBulk ==
    /\ Start(NoWorkers)
    /\ NoChecks
    /\ NoStream
    /\ sk = SortIdle
    /\ pk = PickIdle /\ ht = HttpIdle /\ hh = HttpGhostInit /\ NoLive
    /\ bk = [BulkIdle EXCEPT !.pc = "call"]
    /\ bh = BulkGhostInit

\* a return of None that removes the concatenated file
BulkCleanup(b) == [b EXCEPT !.pc = "done", !.result = "none", !.concat = "none"]

\* a return of None
BulkNone(b) == [b EXCEPT !.pc = "done", !.result = "none"]

\* the playlist is fetched and parsed and <basename>.ts is opened for
\* writing: the GET raises, the status is not 200, the text is not a
\* playlist or lists no segment, the file cannot be opened, or the
\* download of the listed segments begins
BulkStart ==
    /\ bk.pc = "call"
    /\ \/ bk' = BulkNone(bk)
       \/ \E n \in 1..MaxSegments :
            bk' = [bk EXCEPT !.pc = "segments", !.segment_urls = n,
                             !.idx = 1, !.failed_segments = 0,
                             !.concat = "empty"]
    /\ UNCHANGED <<offBulk, bh>>

\* a count of failures that is never compared with the limit
BulkFailedMut(b) == [b EXCEPT !.failed_segments = @ + 1, !.idx = @ + 1]

\* a failed segment: counted, and the call given up at the limit
BulkFailed(b) ==
    IF b.failed_segments + 1 >= SEGMENT_MAX_FAILURES
    THEN [BulkNone(b) EXCEPT !.failed_segments = @ + 1]
    ELSE [b EXCEPT !.failed_segments = @ + 1, !.idx = @ + 1]

\* one pass of the segment loop: the segment is appended to the file, or
\* the status is not 200, or the GET raises, or the transfer raises after
\* some bytes were appended
BulkSegment ==
    /\ bk.pc = "segments" /\ bk.idx <= bk.segment_urls
    /\ \E out \in {"ok", "status", "raise", "raise_mid"} :
         bk' = IF out = "ok"
               THEN [bk EXCEPT !.concat = "data", !.idx = @ + 1]
               ELSE IF out = "raise_mid"
                    THEN BulkFailed([bk EXCEPT !.concat = "data"])
                    ELSE BulkFailed(bk)
    /\ bh' = [bh EXCEPT !.fetched = @ + 1]
    /\ UNCHANGED offBulk

\* after the loop ffmpeg is run on <basename>.ts (265-292): it writes the
\* mp3, or exits non-zero, or is not found, or cannot be started for
\* another reason (caught at 297); the failures return None
BulkConvert ==
    /\ bk.pc = "segments" /\ bk.idx > bk.segment_urls
    /\ \E out \in Transcoded :
         /\ bk' = IF out = "ok" THEN [bk EXCEPT !.pc = "done", !.mp3 = "full",
                                                !.result = "mp3"]
                  ELSE BulkNone(bk)
         /\ bh' = [bh EXCEPT !.ffmpeg = @ + 1, !.outcome = out]
    /\ UNCHANGED offBulk

NextBulk ==
    \/ BulkStart
    \/ BulkSegment
    \/ BulkConvert

SpecBulk == InitBulk /\ [][NextBulk]_vars

\* one call of either mode: of download_vod_from_m3u8 or of
\* stream_vod_from_m3u8
InitAssembly == InitBulk \/ InitStream

NextAssembly ==
    \/ BulkStart
    \/ BulkSegment
    \/ BulkConvert
    \/ StreamStart
    \/ FetchPlaylist
    \/ DownloadSegment
    \/ CheckEnd
    \/ StreamSleep
    \/ Interrupt
    \/ Unexpected
    \/ Convert
    \/ ConvertInterrupted

SpecAssembly == InitAssembly /\ [][NextAssembly]_vars

(***************************************************************************)
(* vod_downloader.py: the order of the segment files in                    *)
(* convert_all_segments_to_mp3 (lines 375-383)                             *)
(*                                                                         *)
(* A filename is the sequence of the code points of its characters.  An    *)
(* integer is the sequence of its decimal digits without leading zeros     *)
(* (the empty sequence is 0), so that integers of any size compare as      *)
(* Python's do.                                                            *)
(***************************************************************************)

\* the most files of a segments directory
MaxFiles == 3

\* the code points of ".ts"
DotTs == <<46, 116, 115>>

\* "2.ts", "02.ts", "10.ts", "a2.ts", "a.ts", "b.ts", "1000000000000.ts"
\* and "2000000000000.ts"
FileNames ==
    { <<50>> \o DotTs, <<48, 50>> \o DotTs, <<49, 48>> \o DotTs,
      <<97, 50>> \o DotTs, <<97>> \o DotTs, <<98>> \o DotTs,
      <<49>> \o [i \in 1..12 |-> 48] \o DotTs,
      <<50>> \o [i \in 1..12 |-> 48] \o DotTs }

\* the directories: os.listdir gives every name once
Listings == {files \in SUBSET FileNames : Cardinality(files) <= MaxFiles}

\* \d
IsDigit(c) == c \in 48..57

\* re.search(r'(\d+)', name): the first run of digits, as digits, or <<>>
FirstDigits(name) ==
    LET digits == {i \in DOMAIN name : IsDigit(name[i])} IN
    IF digits = {} THEN <<>>
    ELSE LET first == CHOOSE i \in digits : \A j \in digits : i <= j
             last == CHOOSE i \in first..Len(name) :
                        /\ \A j \in first..i : IsDigit(name[j])
                        /\ i = Len(name) \/ ~IsDigit(name[i + 1])
         IN  [i \in 1..(last - first + 1) |-> name[first + i - 1] - 48]

\* int(m.group(1)): leading zeros do not count
ToInt(digits) ==
    LET nonzero == {i \in DOMAIN digits : digits[i] # 0} IN
    IF nonzero = {} THEN <<>>
    ELSE LET first == CHOOSE i \in nonzero : \A j \in nonzero : i <= j
         IN  SubSeq(digits, first, Len(digits))

\* a < b for two sequences of numbers, as Python compares strings
LexLess(a, b) ==
    \E i \in 1..(Len(a) + 1) :
        /\ i <= Len(b)
        /\ \A j \in 1..(i - 1) : a[j] = b[j]
        /\ i = Len(a) + 1 \/ a[i] < b[i]

\* a < b for two integers
IntLess(a, b) == Len(a) < Len(b) \/ (Len(a) = Len(b) /\ LexLess(a, b))

\* 10**12
Sentinel == <<1>> \o [i \in 1..12 |-> 0]

\* sort_key, lines 380-382
sort_key(name) ==
    [num |-> IF FirstDigits(name) # <<>> THEN ToInt(FirstDigits(name))
             ELSE Sentinel,
     name |-> name]

\* the order of the tuples (int, str)
KeyLess(k1, k2) ==
    IntLess(k1.num, k2.num) \/ (k1.num = k2.num /\ LexLess(k1.name, k2.name))

\* files.sort(key=sort_key), line 383: the names are distinct, so each has
\* its place
SortFiles(files) ==
    [i \in 1..Cardinality(files) |->
        CHOOSE f \in files :
            Cardinality({g \in files : KeyLess(sort_key(g), sort_key(f))})
                = i - 1]

offSort == <<storeVars, streamVars, pk, ht, hh, bk, bh, lv, lc, nh>>

InitSort ==
    /\ Start(NoWorkers)
    /\ NoChecks
    /\ NoStream
    /\ pk = PickIdle /\ ht = HttpIdle /\ hh = HttpGhostInit /\ NoBulk
    /\ lv = LiveIdle
    /\ sk \in [pc : {"call"}, files : Listings, sorted : {<<>>}]

\* lines 375-383
SortSegments ==
    /\ sk.pc = "call"
    /\ sk' = [sk EXCEPT !.pc = "done", !.sorted = SortFiles(sk.files)]
    /\ UNCHANGED offSort

NextSort == SortSegments

SpecSort == InitSort /\ [][NextSort]_vars

(***************************************************************************)
(* vod_downloader.py: is_channel_live (lines 908-953)                      *)
(***************************************************************************)

\* what the fetch of the channel API gives inside the page: the fetch
\* rejects, the response is not ok, its body is not JSON, or the JSON is
\* null, a value that is no object, an object without `livestream`, with
\* `livestream` null, with a `livestream` object, or with `livestream` false
Answers ==
    {"reject", "not_ok", "not_json", "null_data", "non_object",
     "no_livestream", "livestream_null", "livestream", "livestream_false"}

\* how execute_script ends: self.driver is None (AttributeError), it raises
\* WebDriverException or another exception, it returns a value that is not
\* the dict of the script, or it returns the dict of the script
Execs == {"no_driver", "wd_error", "error", "bad_value", "script"}

\* a test that takes a null livestream for one
HasLivestreamMut(answer) ==
    answer \in {"livestream", "livestream_false", "livestream_null"}

\* lines 921-922: data && typeof data.livestream !== 'undefined' &&
\* data.livestream !== null
HasLivestream(answer) == answer \in {"livestream", "livestream_false"}

\* the dict the script returns, lines 913-930
LiveScript(answer) ==
    IF answer \in {"reject", "not_json", "not_ok"}
    THEN [from_script |-> TRUE, error |-> TRUE, is_live |-> FALSE]
    ELSE [from_script |-> TRUE, error |-> FALSE,
          is_live |-> HasLivestream(answer)]

\* lines 932-953: the value returned, and whether an exception leaves the
\* call
is_channel_live(exec, answer) ==
    IF exec = "script"
    THEN [raised |-> FALSE, result |-> LiveScript(answer).is_live]
    ELSE [raised |-> FALSE, result |-> FALSE]

offLiveCheck == <<storeVars, streamVars, pk, ht, hh, bk, bh, lv, sk, nh>>

InitLiveCheck ==
    /\ Start(NoWorkers)
    /\ NoStream
    /\ pk = PickIdle /\ ht = HttpIdle /\ hh = HttpGhostInit /\ NoBulk /\ NoLive
    /\ sk = SortIdle /\ nh = NormIdle
    /\ lc \in [pc : {"call"}, channel : Channels, exec : Execs,
               answer : Answers, raised : {FALSE}, result : {FALSE}]

IsChannelLive ==
    /\ lc.pc = "call"
    /\ LET r == is_channel_live(lc.exec, lc.answer) IN
       lc' = [lc EXCEPT !.pc = "done", !.raised = r.raised,
                        !.result = r.result]
    /\ UNCHANGED offLiveCheck

NextLiveCheck == IsChannelLive

SpecLiveCheck == InitLiveCheck /\ [][NextLiveCheck]_vars

(***************************************************************************)
(* auto_runner.py: _get_channel_history (lines 74-78) as a function of the *)
(* state file                                                              *)
(***************************************************************************)

\* the most entries of a short stored list
MaxShort == 3

\* the most entries a long stored list has after the first STATE_RETENTION
MaxTail == 2

\* short lists of ids and of entries that are no strings
ShortLists == UNION {[1..n -> {NonStr, OldVod, OldVod + 1}] : n \in 0..MaxShort}

\* lists longer than the window: the full history, then new ids, repeated
\* ids and entries that are no strings
LongLists ==
    {FullHistory \o t :
        t \in UNION {[1..n -> {NonStr, OldVod, NewVod, NewVod + 1}] :
                        n \in 0..MaxTail}}

\* the values stored under a channel key
StoredValues ==
    {RawNone, RawOther, RawStr(OldVod)}
        \cup {RawList(l) : l \in ShortLists \cup LongLists}

\* the state files: none, one that does not parse, one that is no object,
\* and the objects with a value under one channel
StateFiles ==
    {MissingFile, PartialFile, NonDictFile}
        \cup {DictFile([EmptyDict EXCEPT ![c] = v]) :
                 c \in Channels, v \in StoredValues}

\* _get_channel_history: state.get raises AttributeError when the loaded
\* value is no object
_get_channel_history(file, channel) ==
    LET state == _load_state(file) IN
    IF state.kind = "nondict" THEN [raised |-> TRUE, result |-> <<>>]
    ELSE [raised |-> FALSE, result |-> _normalize_history(state.data[channel])]

offNorm == <<storeVars, streamVars, pk, ht, hh, bk, bh, lv, sk, lc>>

InitNorm ==
    /\ Start(NoWorkers)
    /\ NoStream
    /\ pk = PickIdle /\ ht = HttpIdle /\ hh = HttpGhostInit /\ NoBulk /\ NoLive
    /\ sk = SortIdle /\ lc = LiveCheckIdle
    /\ nh \in [pc : {"call"}, channel : Channels, file : StateFiles,
               raised : {FALSE}, result : {<<>>}]

GetHistory ==
    /\ nh.pc = "call"
    /\ LET r == _get_channel_history(nh.file, nh.channel) IN
       nh' = [nh EXCEPT !.pc = "done", !.raised = r.raised,
                        !.result = r.result]
    /\ UNCHANGED offNorm

NextNorm == GetHistory

SpecNorm == InitNorm /\ [][NextNorm]_vars

(***************************************************************************)
(* Properties of the processed-state store                                 *)
(***************************************************************************)

Stored(c) == fs["path"].data[c]

\* no id occurs twice in the list
NoDuplicate(l) == Cardinality(Range(l)) = Len(l)

\* the first place of id in the list arg
FirstAt(arg, id) ==
    CHOOSE i \in DOMAIN arg : arg[i] = id /\ \A j \in 1..(i - 1) : arg[j] # id

\* `stored` holds ids of `arg` in the order of their first occurrence in
\* `arg`, and every id of `arg` it lacks came before all it holds
KeepsOrder(stored, arg) ==
    LET pos == [id \in Range(arg) |-> FirstAt(arg, id)]
        low == IF stored = <<>> THEN Len(arg) + 1 ELSE pos[stored[1]]
    IN /\ Range(stored) \subseteq Range(arg)
       /\ \A i \in 1..(Len(stored) - 1) : pos[stored[i]] < pos[stored[i + 1]]
       /\ \A id \in Range(arg) \ Range(stored) :
            Len(stored) = STATE_RETENTION /\ pos[id] < low

InWrite == {"set_load", "save_open", "save_dump", "save_replace", "set_unlock"}
InRecord == {"set_lock"} \cup InWrite

\* C1: after every write of a channel's history the stored list has no
\* duplicate id, holds the ids of the written history in their first-seen
\* order, and has at most STATE_RETENTION entries, the ids dropped being
\* the oldest; a list the program wrote keeps these properties.
C1_DedupInvariant ==
    \A w \in Workers :
        /\ wk[w].pc = "set_unlock" =>
            /\ Stored(Chan(w)).kind = "list"
            /\ KeepsOrder(Stored(Chan(w)).items, wk[w].history)
        /\ gh[w].wrote =>
            /\ Stored(Chan(w)).kind = "list"
            /\ NoDuplicate(Stored(Chan(w)).items)
            /\ Len(Stored(Chan(w)).items) <= STATE_RETENTION
            /\ \A i \in DOMAIN Stored(Chan(w)).items : IsStr(Stored(Chan(w)).items[i])

\* a write that exceeded the cap: the written history had one id more than
\* the window, and the oldest id is the one that is gone
C1_Witness ==
    \E w \in Workers :
        /\ wk[w].pc = "set_unlock"
        /\ Len(wk[w].history) = STATE_RETENTION + 1
        /\ Len(Stored(Chan(w)).items) = STATE_RETENTION
        /\ OldVod \notin Range(Stored(Chan(w)).items)
        /\ NewVod \in Range(Stored(Chan(w)).items)

Alone(w) == \A v \in Workers : v # w => Chan(v) # Chan(w)

\* C2: at most one thread is inside the load-mutate-save sequence, and for
\* workers on distinct channels the state file holds, whenever a worker is
\* not in the middle of recording, exactly the history that worker recorded.
C2_NoLostUpdate ==
    /\ \A v, w \in Workers :
        (v # w /\ wk[v].pc \in InWrite) => wk[w].pc \notin InWrite
    /\ \A w \in Workers :
        (Alone(w) /\ gh[w].wrote /\ wk[w].pc \notin InRecord) =>
            Stored(Chan(w)) = RawList(wk[w].history)

\* two workers on two channels have both recorded, one waited for the other
C2_Witness ==
    /\ Cardinality(Workers) = 2
    /\ \A w \in Workers :
        /\ Alone(w) /\ gh[w].wrote /\ wk[w].pc \notin InRecord
        /\ NewVod \in Range(Stored(Chan(w)).items)
        /\ OldVod \in Range(Stored(Chan(w)).items)

\* C3: from the opening of the temporary file to the rename, and in a
\* process killed in between, the state file is what it was before the save.
C3_AtomicPersistence ==
    \A w \in Workers : gh[w].saving => fs["path"] = gh[w].before

\* the process was killed while the temporary file was half written, over
\* a state file that holds lists
C3_Witness ==
    /\ proc = "crashed"
    /\ \E w \in Workers : gh[w].saving /\ wk[w].pc = "save_dump"
    /\ fs["tmp"].kind = "partial"
    /\ fs["path"].kind = "dict"

(***************************************************************************)
(* Properties of the channel worker                                        *)
(***************************************************************************)

\* C6, as claimed: in a run that starts from the state an earlier run left,
\* download_vod_from_m3u8 is never called for an id that state holds.
C6_IdempotentRerun ==
    \A w \in Workers : wk[w].pc = "download" => wk[w].uuid \notin gh[w].start

\* C7: every id the worker has appended to its history in this run is one
\* whose download returned a path or whose output file was found, and an id
\* given up in a cycle is not in the history.
C7_RecordOnlyArchived ==
    \A w \in Workers :
        /\ Range(wk[w].history) \subseteq gh[w].start \cup gh[w].archived
        /\ Range(wk[w].normalized) \subseteq gh[w].start \cup gh[w].archived
        /\ gh[w].abandoned \cap Range(wk[w].history) = {}
        /\ wk[w].pc \in InRecord \cup {"record"} => wk[w].uuid \in gh[w].archived

\* a cycle in which one video was recorded and another was given up
C7_Witness ==
    \E w \in Workers :
        /\ gh[w].wrote
        /\ gh[w].archived \cap Range(Stored(Chan(w)).items) # {}
        /\ gh[w].abandoned # {}

\* C8: a video given up stays unprocessed, every pending video of a cycle
\* has been reached when the cycle ends, and a video given up is reached
\* again unless the process has ended or the worker has ended.
C8_RetryNextCycle ==
    /\ [](\A w \in Workers :
            /\ gh[w].abandoned \cap wk[w].processed = {}
            /\ wk[w].pc = "sleep" => gh[w].pending \subseteq gh[w].attempted)
    /\ \A u \in {OldVod, NewVod} :
        (u \in gh[1].abandoned) ~>
            (u \notin gh[1].abandoned \/ proc # "running" \/ wk[1].pc = "dead")

\* the first pending video of a cycle was given up and the second is at hand
C8_Witness ==
    \E w \in Workers :
        /\ wk[w].pc = "download"
        /\ wk[w].idx = 2
        /\ gh[w].abandoned = {wk[w].vod_items[1]}
        /\ gh[w].pending = {OldVod, NewVod}

\* C9, as claimed: a write for a channel keeps every id the store held for
\* that channel, also the ids the writer's cached history lacks.
C9_ReMerge ==
    [][\A w \in Workers :
        (wk[w].pc = "save_replace" /\ wk'[w].pc = "set_unlock") =>
            \A id \in Range(_normalize_history(Stored(Chan(w)))) :
                id \in Range(_normalize_history(Stored(Chan(w))'))]_vars

\* C10: a write for one channel leaves the value stored for every other
\* channel as it was.
C10_FrameEffect ==
    [][\A w \in Workers :
        (wk[w].pc = "save_replace" /\ wk'[w].pc = "set_unlock") =>
            /\ Stored(Chan(w))' = RawList(wk[w].normalized)
            /\ \A c \in Channels \ {Chan(w)} : Stored(c)' = Stored(c)]_vars

\* a write has just completed beside another channel's stored value
C10_Witness ==
    \E w \in Workers :
        /\ wk[w].pc = "set_unlock"
        /\ \E c \in Channels \ {Chan(w)} : Stored(c) \notin {RawNone, RawList(<<>>)}

(***************************************************************************)
(* Properties of the runner: the life of the workers and of the process    *)
(***************************************************************************)

\* C21: a worker whose WebDriver was set up does not end: no failure of an
\* operation of its cycle, the recording in the state store among them,
\* takes its thread out of the polling loop (an operator interrupt is
\* raised in the main thread, never in a worker)
C21_OnlySetupEnds ==
    [][\A w \in Workers :
          (proc' = "running" /\ wk[w].driver = "open") => wk'[w].pc # "dead"]_vars

\* C22: when the process has ended on an operator interrupt, every worker
\* whose WebDriver was set up has closed it and has stopped its step logger
C22_OrderlyShutdown ==
    proc = "interrupted" =>
        \A w \in Workers :
            wk[w].driver # "none" =>
                wk[w].driver = "closed" /\ wk[w].steps = "stopped"

\* every worker thread has ended
AllEnded == \A w \in Workers : wk[w].pc = "dead"

C25_DistinctChannels ==
    \A v, w \in Workers :
        (v # w /\ proc = "running" /\ wk[v].driver = "open"
             /\ wk[w].driver = "open") => Chan(v) # Chan(w)

\* C26: the wait at the end of a cycle is pollSeconds after a cycle that had
\* a pending video, and liveCheckSeconds after a cycle that had none
C26_SleepKind ==
    \A w \in Workers :
        wk[w].pc = "sleep" =>
            wk[w].sleep = IF gh[w].pending # {} THEN "poll" ELSE "live"

\* C29: download_vod_from_m3u8 is not called again for a video whose last
\* download ended with a failure of ffmpeg
C29_NoRetry ==
    \A w \in Workers :
        wk[w].pc = "download" => wk[w].uuid \notin gh[w].transcoder

(***************************************************************************)
(* Properties of streaming mode                                            *)
(***************************************************************************)

\* C4: in streaming mode no segment whose local filename was in the
\* segments directory when the run started, or that was downloaded
\* successfully earlier in the run, is fetched again, and every segment
\* fetched is listed by the playlist of the poll
C4_NoRefetch == sh.refetched = {} /\ sh.unlisted = {}

\* the counts up to place n are strictly increasing
Increasing(counts, n) == \A i \in 2..n : counts[i] > counts[i - 1]

\* C5: the end of the stream is detected exactly at the first successful
\* poll whose segment count is not larger than that of the previous
\* successful poll: when it is detected there are at least two successful
\* polls, the last count is not larger than the one before and all earlier
\* counts were strictly increasing; a poll that is not the end leaves the
\* counts strictly increasing; and the loop is left only by the detected
\* end, by an interrupt or by an unexpected exception
C5_EndOfStream ==
    LET n == Len(sh.counts) IN
    /\ st.end_reached =>
          /\ n >= 2
          /\ sh.counts[n] <= sh.counts[n - 1]
          /\ Increasing(sh.counts, n - 1)
    /\ (st.pc \in {"sleep", "fetch"}) => Increasing(sh.counts, n)
    /\ (st.pc \in {"convert", "done"} /\ ~sh.interrupted /\ ~sh.raised)
          => st.end_reached

\* counts 1, 2, 2: the end is detected at the third poll
C5_Witness == st.end_reached /\ sh.counts = <<1, 2, 2>>

\* a poll has failed segment `name` and the next successful poll lists it
Retried(name) ==
    (st.pc = "fetch" /\ st'.pc = "download" /\ name \in sh.failed
        /\ name \in Range(st'.segs)) => name \in Range(st'.new_segs)

\* C17: a failed segment download does not end the polling loop and does
\* not add the segment to the downloaded set, and a segment whose download
\* failed is among the segments fetched at the next successful poll whose
\* playlist lists it
C17_FailuresSkipped ==
    [][/\ (st.pc = "download" /\ sh'.failed # sh.failed /\ sh'.got = sh.got
              /\ ~sh'.interrupted) =>
                 /\ st'.pc = "download" /\ ~st'.end_reached
                 /\ st'.downloaded_files = st.downloaded_files
       /\ \A name \in SegNames : Retried(name)]_vars

\* C18: the loop is left only towards the conversion, the conversion is
\* attempted exactly once, and its result is no path only when no segment
\* file is on disk or the concatenation or ffmpeg failed
C18_AlwaysConvert ==
    /\ (st.end_reached \/ sh.interrupted \/ sh.raised)
           => st.pc \in {"convert", "done"}
    /\ st.pc = "convert" => sh.converts = 0
    /\ st.pc = "done" =>
          /\ sh.converts = 1
          /\ st.result # "mp3" <=> (listdir(disk) = {} \/ sh.convfail)

\* an interrupt while a segment was written, then a conversion that gave
\* the mp3
C18_Witness ==
    /\ st.pc = "done" /\ sh.interrupted /\ st.result = "mp3"
    /\ \E n \in SegNames : disk[n] = "partial"

\* the step that ends a poll: the batch is over and the loop sleeps or ends
PollEnds == st.pc = "download" /\ st'.pc \in {"sleep", "convert"} /\ sh' = sh

\* the last count is not larger than the one before
NonIncrease(counts) ==
    Len(counts) >= 2 /\ counts[Len(counts)] <= counts[Len(counts) - 1]

OperatorInterrupted == sh.interrupted \/ st.result = "interrupt"

\* C23: in the --live-channel program the WebDriver, once set up, is closed
\* when the program has exited, whatever the exit; and when the operator
\* has interrupted the streaming call the driver is closed only after the
\* conversion of the downloaded segments was attempted and has run to its
\* end
C23_FinalizeThenClose ==
    /\ lv.pc = "exited" => lv.driver # "open"
    /\ (lv.driver = "closed" /\ OperatorInterrupted) =>
          /\ st.pc = "done" /\ sh.converts = 1
          /\ st.result # "interrupt"

\* ffmpeg exited non-zero or could not be started
TranscoderFailures == {"nonzero", "missing", "oserror"}

\* C28: after a failure of ffmpeg the bulk call and the streaming call are
\* over without an output path, and the concatenated <basename>.ts written
\* before the run of ffmpeg is on disk
C28_TranscoderFailure ==
    /\ bh.outcome \in TranscoderFailures =>
          /\ bk.pc = "done" /\ bk.result = "none"
          /\ bk.concat \in {"empty", "data"}
    /\ sh.ffmpeg \in TranscoderFailures =>
          /\ st.pc = "done" /\ st.result # "mp3"
          /\ st.concat = "full"

\* a streaming call that was interrupted, has concatenated its segments and
\* did not find ffmpeg
C28_Witness ==
    /\ st.pc = "done" /\ sh.interrupted /\ sh.ffmpeg = "missing"
    /\ st.concat = "full" /\ st.result = "none"

\* C30: the playlist fetch of a streaming call is not repeated without
\* bound: with the thread running, the call comes to its end even when the
\* fetch fails every time
C30_BoundedRetries == <>(st.pc = "done")

(***************************************************************************)
(* Properties of the order of the segment files                            *)
(***************************************************************************)

\* the name has an embedded integer
Numbered(name) == FirstDigits(name) # <<>>

\* the first integer embedded in the name
Ordinal(name) == ToInt(FirstDigits(name))

\* f comes before g in the claimed order
ComesBefore(f, g) ==
    IF Numbered(f) /\ Numbered(g)
    THEN \/ IntLess(Ordinal(f), Ordinal(g))
         \/ Ordinal(f) = Ordinal(g) /\ LexLess(f, g)
    ELSE IF Numbered(f) # Numbered(g) THEN Numbered(f)
    ELSE LexLess(f, g)

\* C27: the segment files are concatenated in ascending order of the first
\* integer embedded in the name, files with equal integers by name, and
\* every file without an integer after all files that have one, by name
C27_SegmentOrder ==
    sk.pc = "done" =>
        /\ Len(sk.sorted) = Cardinality(sk.files)
        /\ \A i, j \in DOMAIN sk.sorted :
              i < j => ComesBefore(sk.sorted[i], sk.sorted[j])

(***************************************************************************)
(* Properties of the liveness check and of the read of a history           *)
(***************************************************************************)

\* the status query succeeded: the script ran, the response was ok and its
\* body was JSON
QuerySucceeded(exec, answer) ==
    exec = "script" /\ answer \notin {"reject", "not_ok", "not_json"}

\* the payload has a livestream that is not null
ReportsLivestream(answer) == answer \in {"livestream", "livestream_false"}

\* C31: is_channel_live never raises, and it returns true exactly when the
\* status query succeeded and its payload has a non-null livestream
C31_FailSafeLiveness ==
    lc.pc = "done" =>
        /\ ~lc.raised
        /\ lc.result <=> (QuerySucceeded(lc.exec, lc.answer)
                             /\ ReportsLivestream(lc.answer))

\* the query succeeded with `livestream: null`: not live
C31_Witness ==
    /\ lc.pc = "done" /\ lc.exec = "script" /\ lc.answer = "livestream_null"
    /\ ~lc.result

\* the entries of a stored value: of a list its items, of a bare string the
\* string, of anything else none
Entries(v) == IF v.kind \in {"list", "str"} THEN v.items ELSE <<>>

\* the value the file holds for the channel; none without an object
ValueOf(file, channel) ==
    IF file.kind = "dict" THEN file.data[channel] ELSE RawNone

\* C32: for every state file that holds an object, or does not exist or
\* does not parse, _get_channel_history returns a list of strings without
\* duplicates, of at most STATE_RETENTION entries, that keeps the strings
\* of the stored value in the order of their first occurrence and lacks
\* only the oldest; and normalizing the returned list gives it back
C32_NormalizedRead ==
    (nh.pc = "done" /\ nh.file.kind # "nondict") =>
        LET strings == SelectSeq(Entries(ValueOf(nh.file, nh.channel)), IsStr)
        IN  /\ ~nh.raised
            /\ \A i \in DOMAIN nh.result : IsStr(nh.result[i])
            /\ NoDuplicate(nh.result)
            /\ Len(nh.result) <= STATE_RETENTION
            /\ KeepsOrder(nh.result, strings)
            /\ _normalize_history(RawList(nh.result)) = nh.result

\* a stored list of more than STATE_RETENTION ids with an entry that is no
\* string and a repeated id: the oldest id is the one dropped
C32_Witness ==
    /\ nh.pc = "done"
    /\ nh.file.kind = "dict"
    /\ ValueOf(nh.file, nh.channel) =
           RawList(FullHistory \o <<NonStr, NewVod>>)
    /\ Len(nh.result) = STATE_RETENTION
    /\ nh.result[1] = OldVod + 1
    /\ nh.result[STATE_RETENTION] = NewVod

(***************************************************************************)
(* Properties of the worker's handling of one video                        *)
(***************************************************************************)

\* C33: a worker that found the output file of a pending video on disk is
\* never at the resolution or the download of that video, and when it has
\* left the video without having ended and without a restart of the
\* process, it is at the next video of the listing with the id among its
\* processed ids
C33_SkipExisting ==
    [][\A w \in DOMAIN wk :
          /\ wk'[w].site = "exists" => wk'[w].pc \notin {"resolve", "download"}
          /\ (/\ wk[w].site = "exists" /\ wk'[w].site # "exists"
              /\ wk'[w].pc \notin {"dead", "init"}) =>
                 /\ wk'[w].pc = "item"
                 /\ wk'[w].idx = wk[w].idx + 1
                 /\ wk[w].uuid \in wk'[w].processed]_vars

\* the id of a video whose output file was found is recorded and the worker
\* is about to go on
C33_Witness ==
    \E w \in DOMAIN wk :
        /\ wk[w].site = "exists" /\ wk[w].pc = "recorded"
        /\ wk[w].uuid \in wk[w].processed
        /\ wk[w].uuid \notin gh[w].start

(***************************************************************************)
(* Properties of streaming mode across runs                                *)
(***************************************************************************)

\* C34: every segment file that a streaming run found in the segments
\* directory at its start, and so treats as downloaded, is a whole segment
C34_CompleteSegments == \A n \in sh.start : disk[n] = "full"

(***************************************************************************)
(* Properties of the result of a bulk download                             *)
(***************************************************************************)

C36_ProcessedGrows ==
    [][\A w \in DOMAIN wk :
          (proc = "running" /\ proc' = "running") =>
              wk[w].processed \subseteq wk'[w].processed]_vars

(***************************************************************************)
(* Properties of the polls of streaming mode                               *)
(***************************************************************************)

\* C37: a GET of the playlist that raises or answers a status other than
\* 200 leads to the sleep before the next poll, with the remembered count,
\* the end flag and the list of counted polls as they were; a 200 whose
\* body is no playlist is counted as a poll of 0 segments without a
\* download, and the pass it belongs to ends the loop for the conversion
\* exactly when an earlier poll was counted, else it is remembered as 0
C37_FailedAndInvalidPolls ==
    [][/\ (sh.poll = "none" /\ sh'.poll = "failed") =>
             /\ st'.pc = "sleep"
             /\ st'.last_playlist_segment_count
                   = st.last_playlist_segment_count
             /\ st'.end_reached = st.end_reached
             /\ sh'.counts = sh.counts
       /\ (sh.poll = "none" /\ sh'.poll = "invalid") =>
             /\ sh'.counts = Append(sh.counts, 0)
             /\ st'.new_segs = <<>>
             /\ st'.pc = "download" /\ ~st'.end_reached
       /\ (sh.poll = "invalid" /\ PollEnds) =>
             IF Len(sh.counts) > 1
             THEN st'.pc = "convert" /\ st'.end_reached
             ELSE /\ st'.pc = "sleep" /\ ~st'.end_reached
                  /\ st'.last_playlist_segment_count = 0]_vars

\* after a poll of two segments whose downloads succeeded, a body that
\* is no playlist has ended the loop
C37_Witness ==
    /\ st.pc = "convert" /\ st.end_reached
    /\ sh.poll = "invalid" /\ sh.counts = <<2, 0>>
    /\ sh.failed = {} /\ ~sh.interrupted

\* C38: without an operator, when the playlist fetch succeeds again and
\* again and the segment count cannot increase for ever, the polling loop
\* is left and convert_all_segments_to_mp3 is reached
C38_Finalizes == <>(st.pc = "convert" /\ ~sh.interrupted)

\* the loop has ended by the end test after three counted polls, with no
\* interrupt and no unexpected exception
C38_Witness ==
    /\ st.pc = "convert" /\ st.end_reached
    /\ ~sh.interrupted /\ ~sh.raised
    /\ Len(sh.counts) = 3

(***************************************************************************)
(* Properties of the order of the --live-channel program                   *)
(***************************************************************************)

\* C39: the program is past its liveness loop only after is_channel_live
\* has answered true, and past its resolution loop only after a variant
\* playlist was resolved; stream_vod_from_m3u8 is called only after both;
\* and a program whose WebDriver was set up exits before both only by the
\* operator's interrupt
C39_LiveOrder ==
    /\ lv.pc \in {"resolve", "basename", "stream"} => lv.live
    /\ lv.pc \in {"basename", "stream"} => lv.resolved
    /\ st.pc # "idle" => (lv.live /\ lv.resolved)
    /\ (lv.pc = "exited" /\ lv.driver # "none" /\ ~(lv.live /\ lv.resolved))
           => lv.code = "130"

\* the streaming call is at its first poll: the channel was live and the
\* variant was resolved
C39_Witness ==
    /\ lv.pc = "stream" /\ st.pc = "fetch"
    /\ lv.live /\ lv.resolved /\ lv.driver = "open"

(***************************************************************************)
(* Properties of the variant selection                                     *)
(***************************************************************************)

\* the bandwidth of a variant, 0 for one without BANDWIDTH
Bandwidth(t) == IF t.bandwidth = NoBandwidth THEN 0 ELSE t.bandwidth

\* the places of the variants whose URI contains the non-empty preference
Matching(variants, preferred) ==
    {i \in DOMAIN variants :
        preferred # <<>> /\ Contains(preferred, variants[i].uri)}

\* i is the first place of the highest bandwidth
FirstHighest(variants, i) ==
    /\ \A j \in DOMAIN variants : Bandwidth(variants[j]) <= Bandwidth(variants[i])
    /\ \A j \in 1..(i - 1) : Bandwidth(variants[j]) < Bandwidth(variants[i])

\* C11: for a master playlist with at least one variant the result is the
\* URI of the first variant in file order whose URI contains the non-empty
\* preference; without such a variant it is the URI of the variant with
\* the highest bandwidth, the first one in file order among equals
C11_VariantSelection ==
    (pk.pc = "done" /\ pk.resp.variants # <<>>) =>
        LET variants == pk.resp.variants
            m == Matching(variants, pk.preferred_variant)
        IN  IF m # {}
            THEN \E i \in m : /\ \A j \in m : i <= j
                              /\ pk.result = variants[i].uri
            ELSE \E i \in DOMAIN variants : /\ FirstHighest(variants, i)
                                            /\ pk.result = variants[i].uri

\* no URI matches the preference and the highest bandwidth occurs twice,
\* the second time under another URI
C11_Witness ==
    /\ pk.pc = "done"
    /\ pk.preferred_variant = <<"c">>
    /\ Len(pk.resp.variants) = MaxVariants
    /\ pk.resp.variants[1].bandwidth = 0
    /\ pk.resp.variants[2] = [bandwidth |-> 1, uri |-> <<"a">>]
    /\ pk.resp.variants[3] = [bandwidth |-> 1, uri |-> <<"b">>]
    /\ pk.result = <<"a">>

(***************************************************************************)
(* Properties of the HTTP transport                                        *)
(***************************************************************************)

\* C12: once the active client is the challenge-solving client, no step of
\* any _http_get call makes the plain client active again
C12_OneWayUpgrade ==
    [][(ht.uses => ht'.uses)
       /\ (ht.client = "scraper" => ht'.client = "scraper")]_vars

\* a call on the upgraded transport whose request raised has returned
C12_Witness ==
    /\ ht.pc = "ready" /\ ht.uses /\ hh.upgraded
    /\ hh.uses0
    /\ hh.result.kind = "raise"

\* C13: a call makes at most two requests; a second one is made only
\* after the first raised or answered 403 with the cloudscraper module
\* present and the plain client active when the call began; it has the url
\* and the headers of the first; and the call surfaces the outcome of its
\* last request
C13_AtMostOneRetry ==
    LET requests == hh.requests IN
    /\ Len(requests) <= 2
    /\ Len(requests) = 2 =>
          /\ requests[1].outcome \in {"raise", "403"}
          /\ ht.cloudscraper /\ ~hh.uses0
          /\ Len(hh.created) = 1
          /\ requests[2].url = requests[1].url
          /\ requests[2].headers = requests[1].headers
    /\ hh.result.kind # "none" =>
          /\ hh.result.of = Len(requests)
          /\ hh.result.kind = IF requests[Len(requests)].outcome = "raise"
                              THEN "raise" ELSE "response"

\* the first request answered 403 and the retry, on the new client, raised
C13_Witness ==
    /\ hh.result = [kind |-> "raise", of |-> 2]
    /\ hh.requests[1].outcome = "403"
    /\ hh.requests[1].client = "session"
    /\ hh.requests[2].client = "scraper"

\* C14: right after construction the active client is the plain one, and
\* the challenge-solving client is active only after an upgrade
C14_StartsPlain ==
    /\ (ht.pc = "ready" /\ ht.calls = 0) => (ht.client = "session" /\ ~ht.uses)
    /\ ht.uses => hh.upgraded

\* C15: when the challenge-solving client could not be created after a
\* failed or 403 request, the call surfaces the outcome of that request
\* and no other request is made
C15_UpgradeFailure ==
    (hh.created # <<>> /\ ~hh.created[1]) =>
        /\ Len(hh.requests) = 1
        /\ hh.result.kind # "none" => hh.result.of = 1

(***************************************************************************)
(* Properties of bulk mode                                                 *)
(***************************************************************************)

\* C16: once the failed segment fetches of a video number 10 the call is
\* over: no further segment is fetched, ffmpeg was never run, no path is
\* returned, and neither the mp3 nor a partly written <basename>.ts of
\* the video is left
C16_AbortAtTen ==
    bk.failed_segments >= SEGMENT_MAX_FAILURES =>
        /\ bk.pc = "done" /\ bk.result = "none"
        /\ bk.failed_segments = SEGMENT_MAX_FAILURES
        /\ bh.fetched = bk.idx
        /\ bh.ffmpeg = 0
        /\ bk.mp3 = "none" /\ bk.concat = "none"

====
